---- MODULE Spec2Model ----
(***************************************************************************)
(* Model of the reddit_clone Engine (src/engine.go).                       *)
(*                                                                         *)
(* The Go heap is modelled by four object tables (userObj, subObj,         *)
(* postObj, commentObj); a pointer is an index into its table and Nil is   *)
(* the nil pointer.  The Engine struct is the record e.  Every Engine      *)
(* method is an operator that executes ONE source statement of the method: *)
(* it maps the memory m and the caller's frame f (arguments, locals,       *)
(* program counter = source line of the next statement) to the set of      *)
(* successor (memory, frame) pairs.  Run executes a method to completion.  *)
(* Spec is the single-caller program (each action is one whole call);      *)
(* SpecConc runs one call per goroutine, interleaved statement by          *)
(* statement.  Engine.StartTime (wall clock) is not modelled.              *)
(***************************************************************************)
EXTENDS Integers, Sequences, FiniteSets, TLC

VARIABLES e, userObj, subObj, postObj, commentObj, cur, thr, snap, boot

vars == <<e, userObj, subObj, postObj, commentObj, cur, thr, snap, boot>>

----------------------------------------------------------------------------
(* Bounds of the model and input alphabets *)

MaxActions == 3

Usernames == <<"alice", "bob">>
Names == {"r1", "r2"}
Contents == {"hi"}
Threads == {1, 2}

----------------------------------------------------------------------------
(* Generic helpers: Go maps, pointers, sums *)

Nil == 0
PcIdle == 0
PcExit == -1
PcDone == -2

EmptyMap == <<>>

MapPut(mp, k, v) == [x \in (DOMAIN mp) \cup {k} |-> IF x = k THEN v ELSE mp[x]]

MapDelete(mp, k) == [x \in (DOMAIN mp) \ {k} |-> mp[x]]

Range(s) == {s[i] : i \in DOMAIN s}

----------------------------------------------------------------------------
(* Memory and frames *)

Mem == [e |-> e, userObj |-> userObj, subObj |-> subObj,
        postObj |-> postObj, commentObj |-> commentObj]

Commit(m) ==
    /\ e' = m.e
    /\ userObj' = m.userObj
    /\ subObj' = m.subObj
    /\ postObj' = m.postObj
    /\ commentObj' = m.commentObj

NoMessage == [From |-> Nil, To |-> Nil, Content |-> ""]

NoLocals == [id |-> 0, exists |-> FALSE, sub |-> Nil, obj |-> Nil,
             message |-> NoMessage, acc |-> <<>>, rng |-> <<>>,
             i |-> -1, j |-> -1, keys |-> {}, item |-> Nil]

NoArgs == [user |-> Nil, to |-> Nil, name |-> "", content |-> "",
           post |-> Nil, comment |-> Nil, msg |-> NoMessage]

IdleFrame == [op |-> "", fn |-> "", pc |-> PcIdle, deferred |-> FALSE,
              holds |-> FALSE, a |-> NoArgs, l |-> NoLocals, ret |-> Nil]

(* One successor: the memory m and the frame f continued at line pc *)
Next1(m, f, pc) == {[m |-> m, f |-> [f EXCEPT !.pc = pc]]}

(* Lock with a fault: the mutex is acquired without waiting for its release *)
Lock_NoWait(m, f, pc) ==
    Next1([m EXCEPT !.e.Mutex = TRUE], [f EXCEPT !.holds = TRUE], pc)

(* e.Mutex.Lock(): blocks (no successor) while the mutex is held *)
Lock(m, f, pc) ==
    IF m.e.Mutex THEN {}
    ELSE Next1([m EXCEPT !.e.Mutex = TRUE], [f EXCEPT !.holds = TRUE], pc)

(* defer e.Mutex.Unlock(): registers the deferred call *)
Defer(m, f, pc) == Next1(m, [f EXCEPT !.deferred = TRUE], pc)

(* return v: the result is set, then the deferred calls run *)
Return(m, f, v) == Next1(m, [f EXCEPT !.ret = v], PcExit)

----------------------------------------------------------------------------
(* Construction *)

NewEngine ==
    [Users |-> EmptyMap, SubReddits |-> EmptyMap, Messages |-> <<>>,
     PostID |-> 1, CommentID |-> 1,
     TotalPosts |-> 0, TotalVotes |-> 0, TotalUpvotes |-> 0,
     TotalDownvotes |-> 0, TotalMessages |-> 0, TotalActions |-> 0,
     TotalComments |-> 0, DisconnectedUsers |-> 0, Mutex |-> FALSE,
     ActionBreakdown |-> [k \in {"Posts", "Comments", "Votes", "Messages"} |-> 0]]

NewMem == [e |-> NewEngine, userObj |-> <<>>, subObj |-> <<>>,
           postObj |-> <<>>, commentObj |-> <<>>]

NoSnap == [m |-> NewMem, f |-> IdleFrame]

----------------------------------------------------------------------------
(* Engine methods, one source statement per evaluation *)

(* RegisterUser with a fault: the identifier is len(e.Users), not len(e.Users) + 1 *)
RegisterUser_ZeroBased(m, f) ==
    CASE f.pc = 85 -> Lock(m, f, 86)
      [] f.pc = 86 -> Defer(m, f, 87)
      [] f.pc = 87 ->
            Next1(m, [f EXCEPT !.l.id = Cardinality(DOMAIN m.e.Users)], 88)
      [] f.pc = 88 ->
            Next1([m EXCEPT !.userObj = Append(@,
                        [ID |-> f.l.id, Username |-> f.a.name, Karma |-> 0,
                         Actions |-> 0, Connected |-> TRUE])],
                  [f EXCEPT !.l.obj = Len(m.userObj) + 1], 89)
      [] f.pc = 89 ->
            Next1([m EXCEPT !.e.Users = MapPut(@, f.l.id, f.l.obj)], f, 90)
      [] f.pc = 90 -> Return(m, f, f.l.obj)

RegisterUser(m, f) ==
    CASE f.pc = 85 -> Lock(m, f, 86)
      [] f.pc = 86 -> Defer(m, f, 87)
      [] f.pc = 87 ->
            Next1(m, [f EXCEPT !.l.id = Cardinality(DOMAIN m.e.Users) + 1], 88)
      [] f.pc = 88 ->
            Next1([m EXCEPT !.userObj = Append(@,
                        [ID |-> f.l.id, Username |-> f.a.name, Karma |-> 0,
                         Actions |-> 0, Connected |-> TRUE])],
                  [f EXCEPT !.l.obj = Len(m.userObj) + 1], 89)
      [] f.pc = 89 ->
            Next1([m EXCEPT !.e.Users = MapPut(@, f.l.id, f.l.obj)], f, 90)
      [] f.pc = 90 -> Return(m, f, f.l.obj)

(* CreateSubReddit with a fault: an existing name is not rejected *)
CreateSubReddit_Overwrite(m, f) ==
    CASE f.pc = 94 -> Lock(m, f, 95)
      [] f.pc = 95 -> Defer(m, f, 96)
      [] f.pc = 96 ->
            Next1(m, [f EXCEPT !.l.exists = f.a.name \in DOMAIN m.e.SubReddits], 99)
      [] f.pc = 97 -> Return(m, f, Nil)
      [] f.pc = 99 ->
            Next1([m EXCEPT !.subObj = Append(@,
                        [Name |-> f.a.name, Posts |-> <<>>, Users |-> EmptyMap])],
                  [f EXCEPT !.l.obj = Len(m.subObj) + 1], 100)
      [] f.pc = 100 ->
            Next1([m EXCEPT !.e.SubReddits = MapPut(@, f.a.name, f.l.obj)], f, 101)
      [] f.pc = 101 -> Return(m, f, f.l.obj)

CreateSubReddit(m, f) ==
    CASE f.pc = 94 -> Lock(m, f, 95)
      [] f.pc = 95 -> Defer(m, f, 96)
      [] f.pc = 96 ->
            IF f.a.name \in DOMAIN m.e.SubReddits
            THEN Next1(m, [f EXCEPT !.l.exists = TRUE], 97)
            ELSE Next1(m, [f EXCEPT !.l.exists = FALSE], 99)
      [] f.pc = 97 -> Return(m, f, Nil)
      [] f.pc = 99 ->
            Next1([m EXCEPT !.subObj = Append(@,
                        [Name |-> f.a.name, Posts |-> <<>>, Users |-> EmptyMap])],
                  [f EXCEPT !.l.obj = Len(m.subObj) + 1], 100)
      [] f.pc = 100 ->
            Next1([m EXCEPT !.e.SubReddits = MapPut(@, f.a.name, f.l.obj)], f, 101)
      [] f.pc = 101 -> Return(m, f, f.l.obj)

(* subReddit, exists := e.SubReddits[subRedditName] *)
Lookup(m, f, pc) ==
    IF f.a.name \in DOMAIN m.e.SubReddits
    THEN Next1(m, [f EXCEPT !.l.sub = m.e.SubReddits[f.a.name],
                            !.l.exists = TRUE], pc)
    ELSE Next1(m, [f EXCEPT !.l.sub = Nil, !.l.exists = FALSE], pc)

(* JoinSubReddit with a fault: the global action total is not incremented *)
JoinSubReddit_NoTotal(m, f) ==
    CASE f.pc = 105 -> Lock(m, f, 106)
      [] f.pc = 106 -> Defer(m, f, 107)
      [] f.pc = 107 -> Lookup(m, f, 108)
      [] f.pc = 108 -> Next1(m, f, IF f.l.exists THEN 111 ELSE 109)
      [] f.pc = 109 -> Return(m, f, FALSE)
      [] f.pc = 111 ->
            Next1([m EXCEPT !.subObj[f.l.sub].Users =
                        MapPut(@, m.userObj[f.a.user].ID, f.a.user)], f, 112)
      [] f.pc = 112 ->
            Next1([m EXCEPT !.userObj[f.a.user].Actions = @ + 1], f, 113)
      [] f.pc = 113 -> Next1(m, f, 114)
      [] f.pc = 114 -> Return(m, f, TRUE)

JoinSubReddit(m, f) ==
    CASE f.pc = 105 -> Lock(m, f, 106)
      [] f.pc = 106 -> Defer(m, f, 107)
      [] f.pc = 107 -> Lookup(m, f, 108)
      [] f.pc = 108 -> Next1(m, f, IF f.l.exists THEN 111 ELSE 109)
      [] f.pc = 109 -> Return(m, f, FALSE)
      [] f.pc = 111 ->
            Next1([m EXCEPT !.subObj[f.l.sub].Users =
                        MapPut(@, m.userObj[f.a.user].ID, f.a.user)], f, 112)
      [] f.pc = 112 ->
            Next1([m EXCEPT !.userObj[f.a.user].Actions = @ + 1], f, 113)
      [] f.pc = 113 -> Next1([m EXCEPT !.e.TotalActions = @ + 1], f, 114)
      [] f.pc = 114 -> Return(m, f, TRUE)

(* LeaveSubReddit with a fault: leaving fails for a user who is not a member *)
LeaveSubReddit_MembersOnly(m, f) ==
    CASE f.pc = 118 -> Lock(m, f, 119)
      [] f.pc = 119 -> Defer(m, f, 120)
      [] f.pc = 120 -> Lookup(m, f, 121)
      [] f.pc = 121 ->
            Next1(m, f, IF /\ f.l.exists
                           /\ m.userObj[f.a.user].ID \in DOMAIN m.subObj[f.l.sub].Users
                        THEN 124 ELSE 122)
      [] f.pc = 122 -> Return(m, f, FALSE)
      [] f.pc = 124 ->
            Next1([m EXCEPT !.subObj[f.l.sub].Users =
                        MapDelete(@, m.userObj[f.a.user].ID)], f, 125)
      [] f.pc = 125 ->
            Next1([m EXCEPT !.userObj[f.a.user].Actions = @ + 1], f, 126)
      [] f.pc = 126 -> Next1([m EXCEPT !.e.TotalActions = @ + 1], f, 127)
      [] f.pc = 127 -> Return(m, f, TRUE)

LeaveSubReddit(m, f) ==
    CASE f.pc = 118 -> Lock(m, f, 119)
      [] f.pc = 119 -> Defer(m, f, 120)
      [] f.pc = 120 -> Lookup(m, f, 121)
      [] f.pc = 121 -> Next1(m, f, IF f.l.exists THEN 124 ELSE 122)
      [] f.pc = 122 -> Return(m, f, FALSE)
      [] f.pc = 124 ->
            Next1([m EXCEPT !.subObj[f.l.sub].Users =
                        MapDelete(@, m.userObj[f.a.user].ID)], f, 125)
      [] f.pc = 125 ->
            Next1([m EXCEPT !.userObj[f.a.user].Actions = @ + 1], f, 126)
      [] f.pc = 126 -> Next1([m EXCEPT !.e.TotalActions = @ + 1], f, 127)
      [] f.pc = 127 -> Return(m, f, TRUE)

(* CreatePost with a fault: the failure path consumes an identifier *)
CreatePost_IdOnFailure(m, f) ==
    CASE f.pc = 131 -> Lock(m, f, 132)
      [] f.pc = 132 -> Defer(m, f, 134)
      [] f.pc = 134 -> Lookup(m, f, 135)
      [] f.pc = 135 -> Next1(m, f, IF f.l.exists THEN 139 ELSE 136)
      [] f.pc = 136 -> Return([m EXCEPT !.e.PostID = @ + 1], f, Nil)
      [] f.pc = 139 ->
            Next1([m EXCEPT !.postObj = Append(@,
                        [ID |-> m.e.PostID, Author |-> f.a.user,
                         Content |-> f.a.content, Comments |-> <<>>, Votes |-> 0])],
                  [f EXCEPT !.l.obj = Len(m.postObj) + 1], 146)
      [] f.pc = 146 -> Next1([m EXCEPT !.e.PostID = @ + 1], f, 147)
      [] f.pc = 147 -> Next1([m EXCEPT !.e.TotalPosts = @ + 1], f, 148)
      [] f.pc = 148 -> Next1([m EXCEPT !.e.ActionBreakdown["Posts"] = @ + 1], f, 149)
      [] f.pc = 149 ->
            Next1([m EXCEPT !.userObj[f.a.user].Actions = @ + 1], f, 150)
      [] f.pc = 150 -> Next1([m EXCEPT !.e.TotalActions = @ + 1], f, 152)
      [] f.pc = 152 ->
            Next1([m EXCEPT !.subObj[f.l.sub].Posts = Append(@, f.l.obj)], f, 153)
      [] f.pc = 153 -> Return(m, f, f.l.obj)

(* CreatePost with a fault: the mutex is not taken *)
CreatePost_NoLock(m, f) ==
    CASE f.pc = 131 -> Next1(m, f, 132)
      [] f.pc = 132 -> Defer(m, f, 134)
      [] f.pc = 134 -> Lookup(m, f, 135)
      [] f.pc = 135 -> Next1(m, f, IF f.l.exists THEN 139 ELSE 136)
      [] f.pc = 136 -> Return(m, f, Nil)
      [] f.pc = 139 ->
            Next1([m EXCEPT !.postObj = Append(@,
                        [ID |-> m.e.PostID, Author |-> f.a.user,
                         Content |-> f.a.content, Comments |-> <<>>, Votes |-> 0])],
                  [f EXCEPT !.l.obj = Len(m.postObj) + 1], 146)
      [] f.pc = 146 -> Next1([m EXCEPT !.e.PostID = @ + 1], f, 147)
      [] f.pc = 147 -> Next1([m EXCEPT !.e.TotalPosts = @ + 1], f, 148)
      [] f.pc = 148 -> Next1([m EXCEPT !.e.ActionBreakdown["Posts"] = @ + 1], f, 149)
      [] f.pc = 149 ->
            Next1([m EXCEPT !.userObj[f.a.user].Actions = @ + 1], f, 150)
      [] f.pc = 150 -> Next1([m EXCEPT !.e.TotalActions = @ + 1], f, 152)
      [] f.pc = 152 ->
            Next1([m EXCEPT !.subObj[f.l.sub].Posts = Append(@, f.l.obj)], f, 153)
      [] f.pc = 153 -> Return(m, f, f.l.obj)

CreatePost(m, f) ==
    CASE f.pc = 131 -> Lock(m, f, 132)
      [] f.pc = 132 -> Defer(m, f, 134)
      [] f.pc = 134 -> Lookup(m, f, 135)
      [] f.pc = 135 -> Next1(m, f, IF f.l.exists THEN 139 ELSE 136)
      [] f.pc = 136 -> Return(m, f, Nil)
      [] f.pc = 139 ->
            Next1([m EXCEPT !.postObj = Append(@,
                        [ID |-> m.e.PostID, Author |-> f.a.user,
                         Content |-> f.a.content, Comments |-> <<>>, Votes |-> 0])],
                  [f EXCEPT !.l.obj = Len(m.postObj) + 1], 146)
      [] f.pc = 146 -> Next1([m EXCEPT !.e.PostID = @ + 1], f, 147)
      [] f.pc = 147 -> Next1([m EXCEPT !.e.TotalPosts = @ + 1], f, 148)
      [] f.pc = 148 -> Next1([m EXCEPT !.e.ActionBreakdown["Posts"] = @ + 1], f, 149)
      [] f.pc = 149 ->
            Next1([m EXCEPT !.userObj[f.a.user].Actions = @ + 1], f, 150)
      [] f.pc = 150 -> Next1([m EXCEPT !.e.TotalActions = @ + 1], f, 152)
      [] f.pc = 152 ->
            Next1([m EXCEPT !.subObj[f.l.sub].Posts = Append(@, f.l.obj)], f, 153)
      [] f.pc = 153 -> Return(m, f, f.l.obj)

(* CreateRepost with a fault: PostID is not advanced *)
CreateRepost_NoAdvance(m, f) ==
    CASE f.pc = 157 -> Lock(m, f, 158)
      [] f.pc = 158 -> Defer(m, f, 160)
      [] f.pc = 160 -> Lookup(m, f, 161)
      [] f.pc = 161 -> Next1(m, f, IF f.l.exists THEN 165 ELSE 162)
      [] f.pc = 162 -> Return(m, f, Nil)
      [] f.pc = 165 ->
            Next1([m EXCEPT !.postObj = Append(@,
                        [ID |-> m.e.PostID, Author |-> f.a.user,
                         Content |-> m.postObj[f.a.post].Content,
                         Comments |-> <<>>, Votes |-> 0])],
                  [f EXCEPT !.l.obj = Len(m.postObj) + 1], 173)
      [] f.pc = 173 -> Next1(m, f, 174)
      [] f.pc = 174 -> Next1([m EXCEPT !.e.TotalPosts = @ + 1], f, 175)
      [] f.pc = 175 -> Next1([m EXCEPT !.e.ActionBreakdown["Posts"] = @ + 1], f, 176)
      [] f.pc = 176 ->
            Next1([m EXCEPT !.userObj[f.a.user].Actions = @ + 1], f, 177)
      [] f.pc = 177 -> Next1([m EXCEPT !.e.TotalActions = @ + 1], f, 179)
      [] f.pc = 179 ->
            Next1([m EXCEPT !.subObj[f.l.sub].Posts = Append(@, f.l.obj)], f, 180)
      [] f.pc = 180 -> Return(m, f, f.l.obj)

(* CreateRepost with a fault: the new post starts with the original's votes *)
CreateRepost_CopiesVotes(m, f) ==
    CASE f.pc = 157 -> Lock(m, f, 158)
      [] f.pc = 158 -> Defer(m, f, 160)
      [] f.pc = 160 -> Lookup(m, f, 161)
      [] f.pc = 161 -> Next1(m, f, IF f.l.exists THEN 165 ELSE 162)
      [] f.pc = 162 -> Return(m, f, Nil)
      [] f.pc = 165 ->
            Next1([m EXCEPT !.postObj = Append(@,
                        [ID |-> m.e.PostID, Author |-> f.a.user,
                         Content |-> m.postObj[f.a.post].Content,
                         Comments |-> <<>>, Votes |-> m.postObj[f.a.post].Votes])],
                  [f EXCEPT !.l.obj = Len(m.postObj) + 1], 173)
      [] f.pc = 173 -> Next1([m EXCEPT !.e.PostID = @ + 1], f, 174)
      [] f.pc = 174 -> Next1([m EXCEPT !.e.TotalPosts = @ + 1], f, 175)
      [] f.pc = 175 -> Next1([m EXCEPT !.e.ActionBreakdown["Posts"] = @ + 1], f, 176)
      [] f.pc = 176 ->
            Next1([m EXCEPT !.userObj[f.a.user].Actions = @ + 1], f, 177)
      [] f.pc = 177 -> Next1([m EXCEPT !.e.TotalActions = @ + 1], f, 179)
      [] f.pc = 179 ->
            Next1([m EXCEPT !.subObj[f.l.sub].Posts = Append(@, f.l.obj)], f, 180)
      [] f.pc = 180 -> Return(m, f, f.l.obj)

CreateRepost(m, f) ==
    CASE f.pc = 157 -> Lock(m, f, 158)
      [] f.pc = 158 -> Defer(m, f, 160)
      [] f.pc = 160 -> Lookup(m, f, 161)
      [] f.pc = 161 -> Next1(m, f, IF f.l.exists THEN 165 ELSE 162)
      [] f.pc = 162 -> Return(m, f, Nil)
      [] f.pc = 165 ->
            Next1([m EXCEPT !.postObj = Append(@,
                        [ID |-> m.e.PostID, Author |-> f.a.user,
                         Content |-> m.postObj[f.a.post].Content,
                         Comments |-> <<>>, Votes |-> 0])],
                  [f EXCEPT !.l.obj = Len(m.postObj) + 1], 173)
      [] f.pc = 173 -> Next1([m EXCEPT !.e.PostID = @ + 1], f, 174)
      [] f.pc = 174 -> Next1([m EXCEPT !.e.TotalPosts = @ + 1], f, 175)
      [] f.pc = 175 -> Next1([m EXCEPT !.e.ActionBreakdown["Posts"] = @ + 1], f, 176)
      [] f.pc = 176 ->
            Next1([m EXCEPT !.userObj[f.a.user].Actions = @ + 1], f, 177)
      [] f.pc = 177 -> Next1([m EXCEPT !.e.TotalActions = @ + 1], f, 179)
      [] f.pc = 179 ->
            Next1([m EXCEPT !.subObj[f.l.sub].Posts = Append(@, f.l.obj)], f, 180)
      [] f.pc = 180 -> Return(m, f, f.l.obj)

CommentPost(m, f) ==
    CASE f.pc = 184 -> Lock(m, f, 185)
      [] f.pc = 185 -> Defer(m, f, 186)
      [] f.pc = 186 ->
            (* comment escapes through &comment: it is its own heap object *)
            Next1([m EXCEPT !.commentObj = Append(@,
                        [ID |-> m.e.CommentID, Author |-> f.a.user,
                         Content |-> f.a.content, Replies |-> <<>>, Votes |-> 0])],
                  [f EXCEPT !.l.obj = Len(m.commentObj) + 1], 187)
      [] f.pc = 187 -> Next1([m EXCEPT !.e.CommentID = @ + 1], f, 188)
      [] f.pc = 188 ->
            (* append stores a copy of the struct value in the post's slice *)
            Next1([m EXCEPT !.postObj[f.a.post].Comments =
                        Append(@, m.commentObj[f.l.obj])], f, 189)
      [] f.pc = 189 -> Next1([m EXCEPT !.e.TotalComments = @ + 1], f, 190)
      [] f.pc = 190 ->
            Next1([m EXCEPT !.e.ActionBreakdown["Comments"] = @ + 1], f, 191)
      [] f.pc = 191 ->
            Next1([m EXCEPT !.userObj[f.a.user].Actions = @ + 1], f, 192)
      [] f.pc = 192 -> Next1([m EXCEPT !.e.TotalActions = @ + 1], f, 193)
      [] f.pc = 193 -> Return(m, f, f.l.obj)

(* AddReplyToComment with a fault: TotalComments is not incremented *)
AddReplyToComment_NoTotal(m, f) ==
    CASE f.pc = 197 -> Lock(m, f, 198)
      [] f.pc = 198 -> Defer(m, f, 199)
      [] f.pc = 199 ->
            Next1([m EXCEPT !.commentObj = Append(@,
                        [ID |-> m.e.CommentID, Author |-> f.a.user,
                         Content |-> f.a.content, Replies |-> <<>>, Votes |-> 0])],
                  [f EXCEPT !.l.obj = Len(m.commentObj) + 1], 200)
      [] f.pc = 200 -> Next1([m EXCEPT !.e.CommentID = @ + 1], f, 201)
      [] f.pc = 201 ->
            Next1([m EXCEPT !.commentObj[f.a.comment].Replies =
                        Append(@, m.commentObj[f.l.obj])], f, 202)
      [] f.pc = 202 -> Next1(m, f, 203)
      [] f.pc = 203 ->
            Next1([m EXCEPT !.e.ActionBreakdown["Comments"] = @ + 1], f, 204)
      [] f.pc = 204 ->
            Next1([m EXCEPT !.userObj[f.a.user].Actions = @ + 1], f, 205)
      [] f.pc = 205 -> Next1([m EXCEPT !.e.TotalActions = @ + 1], f, 206)
      [] f.pc = 206 -> Return(m, f, f.l.obj)

AddReplyToComment(m, f) ==
    CASE f.pc = 197 -> Lock(m, f, 198)
      [] f.pc = 198 -> Defer(m, f, 199)
      [] f.pc = 199 ->
            Next1([m EXCEPT !.commentObj = Append(@,
                        [ID |-> m.e.CommentID, Author |-> f.a.user,
                         Content |-> f.a.content, Replies |-> <<>>, Votes |-> 0])],
                  [f EXCEPT !.l.obj = Len(m.commentObj) + 1], 200)
      [] f.pc = 200 -> Next1([m EXCEPT !.e.CommentID = @ + 1], f, 201)
      [] f.pc = 201 ->
            Next1([m EXCEPT !.commentObj[f.a.comment].Replies =
                        Append(@, m.commentObj[f.l.obj])], f, 202)
      [] f.pc = 202 -> Next1([m EXCEPT !.e.TotalComments = @ + 1], f, 203)
      [] f.pc = 203 ->
            Next1([m EXCEPT !.e.ActionBreakdown["Comments"] = @ + 1], f, 204)
      [] f.pc = 204 ->
            Next1([m EXCEPT !.userObj[f.a.user].Actions = @ + 1], f, 205)
      [] f.pc = 205 -> Next1([m EXCEPT !.e.TotalActions = @ + 1], f, 206)
      [] f.pc = 206 -> Return(m, f, f.l.obj)

(* UpvotePost with a fault: TotalUpvotes is not counted *)
UpvotePost_NoUpCount(m, f) ==
    CASE f.pc = 210 -> Lock(m, f, 211)
      [] f.pc = 211 -> Defer(m, f, 212)
      [] f.pc = 212 -> Next1([m EXCEPT !.postObj[f.a.post].Votes = @ + 1], f, 213)
      [] f.pc = 213 ->
            Next1([m EXCEPT !.userObj[m.postObj[f.a.post].Author].Karma = @ + 1],
                  f, 214)
      [] f.pc = 214 -> Next1([m EXCEPT !.e.TotalVotes = @ + 1], f, 215)
      [] f.pc = 215 -> Next1(m, f, 216)
      [] f.pc = 216 -> Next1([m EXCEPT !.e.ActionBreakdown["Votes"] = @ + 1], f, 217)
      [] f.pc = 217 -> Next1([m EXCEPT !.e.TotalActions = @ + 1], f, PcExit)

(* UpvotePost with a fault: the vote is not counted in TotalActions *)
UpvotePost_NoAction(m, f) ==
    CASE f.pc = 210 -> Lock(m, f, 211)
      [] f.pc = 211 -> Defer(m, f, 212)
      [] f.pc = 212 -> Next1([m EXCEPT !.postObj[f.a.post].Votes = @ + 1], f, 213)
      [] f.pc = 213 ->
            Next1([m EXCEPT !.userObj[m.postObj[f.a.post].Author].Karma = @ + 1],
                  f, 214)
      [] f.pc = 214 -> Next1([m EXCEPT !.e.TotalVotes = @ + 1], f, 215)
      [] f.pc = 215 -> Next1([m EXCEPT !.e.TotalUpvotes = @ + 1], f, 216)
      [] f.pc = 216 -> Next1([m EXCEPT !.e.ActionBreakdown["Votes"] = @ + 1], f, 217)
      [] f.pc = 217 -> Next1(m, f, PcExit)

UpvotePost(m, f) ==
    CASE f.pc = 210 -> Lock(m, f, 211)
      [] f.pc = 211 -> Defer(m, f, 212)
      [] f.pc = 212 -> Next1([m EXCEPT !.postObj[f.a.post].Votes = @ + 1], f, 213)
      [] f.pc = 213 ->
            Next1([m EXCEPT !.userObj[m.postObj[f.a.post].Author].Karma = @ + 1],
                  f, 214)
      [] f.pc = 214 -> Next1([m EXCEPT !.e.TotalVotes = @ + 1], f, 215)
      [] f.pc = 215 -> Next1([m EXCEPT !.e.TotalUpvotes = @ + 1], f, 216)
      [] f.pc = 216 -> Next1([m EXCEPT !.e.ActionBreakdown["Votes"] = @ + 1], f, 217)
      [] f.pc = 217 -> Next1([m EXCEPT !.e.TotalActions = @ + 1], f, PcExit)

(* DownvotePost with a fault: the author's karma is raised *)
DownvotePost_KarmaUp(m, f) ==
    CASE f.pc = 221 -> Lock(m, f, 222)
      [] f.pc = 222 -> Defer(m, f, 223)
      [] f.pc = 223 -> Next1([m EXCEPT !.postObj[f.a.post].Votes = @ - 1], f, 224)
      [] f.pc = 224 ->
            Next1([m EXCEPT !.userObj[m.postObj[f.a.post].Author].Karma = @ + 1],
                  f, 225)
      [] f.pc = 225 -> Next1([m EXCEPT !.e.TotalVotes = @ + 1], f, 226)
      [] f.pc = 226 -> Next1([m EXCEPT !.e.TotalDownvotes = @ + 1], f, 227)
      [] f.pc = 227 -> Next1([m EXCEPT !.e.ActionBreakdown["Votes"] = @ + 1], f, 228)
      [] f.pc = 228 -> Next1([m EXCEPT !.e.TotalActions = @ + 1], f, PcExit)

(* DownvotePost with a fault: the vote count is not lowered below zero *)
DownvotePost_Floor(m, f) ==
    CASE f.pc = 221 -> Lock(m, f, 222)
      [] f.pc = 222 -> Defer(m, f, 223)
      [] f.pc = 223 ->
            Next1([m EXCEPT !.postObj[f.a.post].Votes = IF @ > 0 THEN @ - 1 ELSE @],
                  f, 224)
      [] f.pc = 224 ->
            Next1([m EXCEPT !.userObj[m.postObj[f.a.post].Author].Karma = @ - 1],
                  f, 225)
      [] f.pc = 225 -> Next1([m EXCEPT !.e.TotalVotes = @ + 1], f, 226)
      [] f.pc = 226 -> Next1([m EXCEPT !.e.TotalDownvotes = @ + 1], f, 227)
      [] f.pc = 227 -> Next1([m EXCEPT !.e.ActionBreakdown["Votes"] = @ + 1], f, 228)
      [] f.pc = 228 -> Next1([m EXCEPT !.e.TotalActions = @ + 1], f, PcExit)

DownvotePost(m, f) ==
    CASE f.pc = 221 -> Lock(m, f, 222)
      [] f.pc = 222 -> Defer(m, f, 223)
      [] f.pc = 223 -> Next1([m EXCEPT !.postObj[f.a.post].Votes = @ - 1], f, 224)
      [] f.pc = 224 ->
            Next1([m EXCEPT !.userObj[m.postObj[f.a.post].Author].Karma = @ - 1],
                  f, 225)
      [] f.pc = 225 -> Next1([m EXCEPT !.e.TotalVotes = @ + 1], f, 226)
      [] f.pc = 226 -> Next1([m EXCEPT !.e.TotalDownvotes = @ + 1], f, 227)
      [] f.pc = 227 -> Next1([m EXCEPT !.e.ActionBreakdown["Votes"] = @ + 1], f, 228)
      [] f.pc = 228 -> Next1([m EXCEPT !.e.TotalActions = @ + 1], f, PcExit)

(* SendDirectMessage with a fault: the breakdown entry is not incremented *)
SendDirectMessage_NoBreakdown(m, f) ==
    CASE f.pc = 232 -> Lock(m, f, 233)
      [] f.pc = 233 -> Defer(m, f, 234)
      [] f.pc = 234 ->
            Next1(m, [f EXCEPT !.l.message =
                        [From |-> f.a.user, To |-> f.a.to, Content |-> f.a.content]],
                  235)
      [] f.pc = 235 ->
            Next1([m EXCEPT !.e.Messages = Append(@, f.l.message)], f, 236)
      [] f.pc = 236 -> Next1([m EXCEPT !.e.TotalMessages = @ + 1], f, 237)
      [] f.pc = 237 -> Next1(m, f, 238)
      [] f.pc = 238 ->
            Next1([m EXCEPT !.userObj[f.a.user].Actions = @ + 1], f, 239)
      [] f.pc = 239 -> Next1([m EXCEPT !.e.TotalActions = @ + 1], f, PcExit)

(* SendDirectMessage(from, to, content): from is f.a.user *)
SendDirectMessage(m, f) ==
    CASE f.pc = 232 -> Lock(m, f, 233)
      [] f.pc = 233 -> Defer(m, f, 234)
      [] f.pc = 234 ->
            Next1(m, [f EXCEPT !.l.message =
                        [From |-> f.a.user, To |-> f.a.to, Content |-> f.a.content]],
                  235)
      [] f.pc = 235 ->
            Next1([m EXCEPT !.e.Messages = Append(@, f.l.message)], f, 236)
      [] f.pc = 236 -> Next1([m EXCEPT !.e.TotalMessages = @ + 1], f, 237)
      [] f.pc = 237 ->
            Next1([m EXCEPT !.e.ActionBreakdown["Messages"] = @ + 1], f, 238)
      [] f.pc = 238 ->
            Next1([m EXCEPT !.userObj[f.a.user].Actions = @ + 1], f, 239)
      [] f.pc = 239 -> Next1([m EXCEPT !.e.TotalActions = @ + 1], f, PcExit)

(* RetrieveMessages with a fault: messages are selected by their sender *)
RetrieveMessages_BySender(m, f) ==
    CASE f.pc = 243 -> Lock(m, f, 244)
      [] f.pc = 244 -> Defer(m, f, 245)
      [] f.pc = 245 -> Next1(m, [f EXCEPT !.l.acc = <<>>], 246)
      [] f.pc = 246 ->
            IF f.l.i = -1
            THEN Next1(m, [f EXCEPT !.l.rng = m.e.Messages, !.l.i = 0], 246)
            ELSE IF f.l.i < Len(f.l.rng)
            THEN Next1(m, [f EXCEPT !.l.message = f.l.rng[f.l.i + 1],
                                    !.l.i = @ + 1], 247)
            ELSE Next1(m, f, 251)
      [] f.pc = 247 ->
            Next1(m, f, IF f.l.message.From = f.a.user THEN 248 ELSE 246)
      [] f.pc = 248 ->
            Next1(m, [f EXCEPT !.l.acc = Append(@, f.l.message)], 246)
      [] f.pc = 251 -> Return(m, f, f.l.acc)

RetrieveMessages(m, f) ==
    CASE f.pc = 243 -> Lock(m, f, 244)
      [] f.pc = 244 -> Defer(m, f, 245)
      [] f.pc = 245 -> Next1(m, [f EXCEPT !.l.acc = <<>>], 246)
      [] f.pc = 246 ->
            IF f.l.i = -1
            THEN (* the range expression is evaluated once *)
                 Next1(m, [f EXCEPT !.l.rng = m.e.Messages, !.l.i = 0], 246)
            ELSE IF f.l.i < Len(f.l.rng)
            THEN Next1(m, [f EXCEPT !.l.message = f.l.rng[f.l.i + 1],
                                    !.l.i = @ + 1], 247)
            ELSE Next1(m, f, 251)
      [] f.pc = 247 ->
            Next1(m, f, IF f.l.message.To = f.a.user THEN 248 ELSE 246)
      [] f.pc = 248 ->
            Next1(m, [f EXCEPT !.l.acc = Append(@, f.l.message)], 246)
      [] f.pc = 251 -> Return(m, f, f.l.acc)

(* ReplyToMessage with a fault: takes the mutex itself before calling SendDirectMessage *)
ReplyToMessage_Locking(m, f) ==
    CASE f.pc = 255 /\ ~f.holds -> Lock(m, f, 255)
      [] f.pc = 255 /\ f.holds ->
            Next1(m, [f EXCEPT !.fn = "SendDirectMessage",
                               !.a.to = f.a.msg.From], 232)
      [] f.pc = 256 -> Next1(m, f, PcExit)

(* ReplyToMessage with a fault: the reply goes to the original's recipient *)
ReplyToMessage_ToRecipient(m, f) ==
    CASE f.pc = 255 ->
            Next1(m, [f EXCEPT !.fn = "SendDirectMessage",
                               !.a.to = f.a.msg.To], 232)
      [] f.pc = 256 -> Next1(m, f, PcExit)

(* ReplyToMessage takes no lock itself: it calls SendDirectMessage with     *)
(* to = original.From and returns when the callee has returned.             *)
ReplyToMessage(m, f) ==
    CASE f.pc = 255 ->
            Next1(m, [f EXCEPT !.fn = "SendDirectMessage",
                               !.a.to = f.a.msg.From], 232)
      [] f.pc = 256 -> Next1(m, f, PcExit)

(* GetUserFeed with a fault: the membership test is skipped *)
GetUserFeed_Everything(m, f) ==
    CASE f.pc = 259 -> Lock(m, f, 260)
      [] f.pc = 260 -> Defer(m, f, 262)
      [] f.pc = 262 -> Next1(m, [f EXCEPT !.l.acc = <<>>], 263)
      [] f.pc = 263 ->
            IF f.l.i = -1
            THEN Next1(m, [f EXCEPT !.l.keys = DOMAIN m.e.SubReddits,
                                    !.l.i = 0], 263)
            ELSE IF f.l.keys # {}
            THEN UNION { Next1(m, [f EXCEPT !.l.sub = m.e.SubReddits[k],
                                            !.l.keys = @ \ {k},
                                            !.l.j = -1], 264)
                         : k \in f.l.keys }
            ELSE Next1(m, f, 270)
      [] f.pc = 264 -> Next1(m, f, 265)
      [] f.pc = 265 ->
            IF f.l.j = -1
            THEN Next1(m, [f EXCEPT !.l.rng = m.subObj[f.l.sub].Posts,
                                    !.l.j = 0], 265)
            ELSE IF f.l.j < Len(f.l.rng)
            THEN Next1(m, [f EXCEPT !.l.item = f.l.rng[f.l.j + 1],
                                    !.l.j = @ + 1], 266)
            ELSE Next1(m, f, 263)
      [] f.pc = 266 -> Next1(m, [f EXCEPT !.l.acc = Append(@, f.l.item)], 265)
      [] f.pc = 270 -> Return(m, f, f.l.acc)

GetUserFeed(m, f) ==
    CASE f.pc = 259 -> Lock(m, f, 260)
      [] f.pc = 260 -> Defer(m, f, 262)
      [] f.pc = 262 -> Next1(m, [f EXCEPT !.l.acc = <<>>], 263)
      [] f.pc = 263 ->
            IF f.l.i = -1
            THEN Next1(m, [f EXCEPT !.l.keys = DOMAIN m.e.SubReddits,
                                    !.l.i = 0], 263)
            ELSE IF f.l.keys # {}
            THEN (* Go iterates a map in an unspecified order *)
                 UNION { Next1(m, [f EXCEPT !.l.sub = m.e.SubReddits[k],
                                            !.l.keys = @ \ {k},
                                            !.l.j = -1], 264)
                         : k \in f.l.keys }
            ELSE Next1(m, f, 270)
      [] f.pc = 264 ->
            Next1(m, f, IF m.userObj[f.a.user].ID \in DOMAIN m.subObj[f.l.sub].Users
                        THEN 265 ELSE 263)
      [] f.pc = 265 ->
            IF f.l.j = -1
            THEN Next1(m, [f EXCEPT !.l.rng = m.subObj[f.l.sub].Posts,
                                    !.l.j = 0], 265)
            ELSE IF f.l.j < Len(f.l.rng)
            THEN Next1(m, [f EXCEPT !.l.item = f.l.rng[f.l.j + 1],
                                    !.l.j = @ + 1], 266)
            ELSE Next1(m, f, 263)
      [] f.pc = 266 -> Next1(m, [f EXCEPT !.l.acc = Append(@, f.l.item)], 265)
      [] f.pc = 270 -> Return(m, f, f.l.acc)

----------------------------------------------------------------------------
(* Statement dispatch, function exit, and whole calls *)

EntryPc(op) ==
    CASE op = "RegisterUser" -> 85
      [] op = "CreateSubReddit" -> 94
      [] op = "JoinSubReddit" -> 105
      [] op = "LeaveSubReddit" -> 118
      [] op = "CreatePost" -> 131
      [] op = "CreateRepost" -> 157
      [] op = "CommentPost" -> 184
      [] op = "AddReplyToComment" -> 197
      [] op = "UpvotePost" -> 210
      [] op = "DownvotePost" -> 221
      [] op = "SendDirectMessage" -> 232
      [] op = "RetrieveMessages" -> 243
      [] op = "ReplyToMessage" -> 255
      [] op = "GetUserFeed" -> 259

(* The function fn is exiting: its deferred Unlock runs, then control      *)
(* returns to the caller (the API caller, or ReplyToMessage at line 256).  *)
Exit(m, f) ==
    LET m2 == IF f.deferred THEN [m EXCEPT !.e.Mutex = FALSE] ELSE m
        f2 == [f EXCEPT !.holds = IF f.deferred THEN FALSE ELSE @,
                        !.deferred = FALSE, !.l = NoLocals]
    IN  IF f.fn # f.op
        THEN Next1(m2, [f2 EXCEPT !.fn = f.op], 256)
        ELSE Next1(m2, f2, PcDone)

Step(m, f) ==
    CASE f.pc = PcExit -> Exit(m, f)
      [] f.pc # PcExit /\ f.fn = "RegisterUser" -> RegisterUser(m, f)
      [] f.pc # PcExit /\ f.fn = "CreateSubReddit" -> CreateSubReddit(m, f)
      [] f.pc # PcExit /\ f.fn = "JoinSubReddit" -> JoinSubReddit(m, f)
      [] f.pc # PcExit /\ f.fn = "LeaveSubReddit" -> LeaveSubReddit(m, f)
      [] f.pc # PcExit /\ f.fn = "CreatePost" -> CreatePost(m, f)
      [] f.pc # PcExit /\ f.fn = "CreateRepost" -> CreateRepost(m, f)
      [] f.pc # PcExit /\ f.fn = "CommentPost" -> CommentPost(m, f)
      [] f.pc # PcExit /\ f.fn = "AddReplyToComment" -> AddReplyToComment(m, f)
      [] f.pc # PcExit /\ f.fn = "UpvotePost" -> UpvotePost(m, f)
      [] f.pc # PcExit /\ f.fn = "DownvotePost" -> DownvotePost(m, f)
      [] f.pc # PcExit /\ f.fn = "SendDirectMessage" -> SendDirectMessage(m, f)
      [] f.pc # PcExit /\ f.fn = "RetrieveMessages" -> RetrieveMessages(m, f)
      [] f.pc # PcExit /\ f.fn = "ReplyToMessage" -> ReplyToMessage(m, f)
      [] f.pc # PcExit /\ f.fn = "GetUserFeed" -> GetUserFeed(m, f)

(* The frame of a fresh call of op with arguments a *)
Frame(op, a) == [IdleFrame EXCEPT !.op = op, !.fn = op, !.pc = EntryPc(op), !.a = a]

(* All outcomes of running the call in frame f to completion from memory m *)
RECURSIVE Run(_, _)
Run(m, f) ==
    IF f.pc = PcDone THEN {[m |-> m, f |-> f]}
    ELSE UNION { Run(s.m, s.f) : s \in Step(m, f) }

----------------------------------------------------------------------------
(* The single-caller program: every action is one whole Engine call *)

UserPtrs == 1..Len(userObj)
PostPtrs == 1..Len(postObj)
CommentPtrs == 1..Len(commentObj)

(* Votes cast by the harness directly: the votes the Engine did not count  *)
(* as actions (none under Engine calls alone).                             *)
HarnessVotes == e.TotalVotes - e.ActionBreakdown["Votes"]

(* A run makes at most MaxActions counted actions, harness votes and       *)
(* disconnections (the last two are 0 under Engine calls alone)            *)
Budget == e.TotalActions + HarnessVotes + e.DisconnectedUsers < MaxActions

Call(op, a) ==
    \E s \in Run(Mem, Frame(op, a)) :
        /\ Commit(s.m)
        /\ cur' = s.f
        /\ UNCHANGED <<thr, snap, boot>>

Init ==
    /\ e = NewEngine
    /\ userObj = <<>>
    /\ subObj = <<>>
    /\ postObj = <<>>
    /\ commentObj = <<>>
    /\ cur = IdleFrame
    /\ thr = [t \in Threads |-> IdleFrame]
    /\ snap = [t \in Threads |-> NoSnap]
    /\ boot = 0

CallRegisterUser ==
    /\ Len(userObj) < Len(Usernames)
    /\ Call("RegisterUser", [NoArgs EXCEPT !.name = Usernames[Len(userObj) + 1]])

CallCreateSubReddit ==
    \E n \in Names : Call("CreateSubReddit", [NoArgs EXCEPT !.name = n])

CallJoinSubReddit ==
    /\ Budget
    /\ \E u \in UserPtrs, n \in Names :
          Call("JoinSubReddit", [NoArgs EXCEPT !.user = u, !.name = n])

CallLeaveSubReddit ==
    /\ Budget
    /\ \E u \in UserPtrs, n \in Names :
          Call("LeaveSubReddit", [NoArgs EXCEPT !.user = u, !.name = n])

CallCreatePost ==
    /\ Budget
    /\ \E u \in UserPtrs, n \in Names, c \in Contents :
          Call("CreatePost", [NoArgs EXCEPT !.user = u, !.name = n, !.content = c])

CallCreateRepost ==
    /\ Budget
    /\ \E u \in UserPtrs, p \in PostPtrs, n \in Names :
          Call("CreateRepost", [NoArgs EXCEPT !.user = u, !.post = p, !.name = n])

CallCommentPost ==
    /\ Budget
    /\ \E u \in UserPtrs, p \in PostPtrs, c \in Contents :
          Call("CommentPost", [NoArgs EXCEPT !.user = u, !.post = p, !.content = c])

CallAddReplyToComment ==
    /\ Budget
    /\ \E u \in UserPtrs, k \in CommentPtrs, c \in Contents :
          Call("AddReplyToComment",
               [NoArgs EXCEPT !.user = u, !.comment = k, !.content = c])

CallUpvotePost ==
    /\ Budget
    /\ \E p \in PostPtrs : Call("UpvotePost", [NoArgs EXCEPT !.post = p])

CallDownvotePost ==
    /\ Budget
    /\ \E p \in PostPtrs : Call("DownvotePost", [NoArgs EXCEPT !.post = p])

CallSendDirectMessage ==
    /\ Budget
    /\ \E u \in UserPtrs, t \in UserPtrs, c \in Contents :
          Call("SendDirectMessage",
               [NoArgs EXCEPT !.user = u, !.to = t, !.content = c])

CallRetrieveMessages ==
    \E u \in UserPtrs : Call("RetrieveMessages", [NoArgs EXCEPT !.user = u])

CallReplyToMessage ==
    /\ Budget
    /\ \E u \in UserPtrs, o \in Range(e.Messages), c \in Contents :
          Call("ReplyToMessage", [NoArgs EXCEPT !.user = u, !.msg = o, !.content = c])

CallGetUserFeed ==
    \E u \in UserPtrs : Call("GetUserFeed", [NoArgs EXCEPT !.user = u])

Next ==
    \/ CallRegisterUser
    \/ CallCreateSubReddit
    \/ CallJoinSubReddit
    \/ CallLeaveSubReddit
    \/ CallCreatePost
    \/ CallCreateRepost
    \/ CallCommentPost
    \/ CallAddReplyToComment
    \/ CallUpvotePost
    \/ CallDownvotePost
    \/ CallSendDirectMessage
    \/ CallRetrieveMessages
    \/ CallReplyToMessage
    \/ CallGetUserFeed

Spec == Init /\ [][Next]_vars

----------------------------------------------------------------------------
(* The harness around the Engine (package main): simulateUsers and main    *)
(* call the Engine and also write its objects directly: user.Connected and *)
(* DisconnectedUsers, votes on the comment handle CommentPost returned,    *)
(* and, in printComments, votes on the comments stored in the posts.       *)

VoteComment(m, c, up) ==
    LET d == IF up THEN 1 ELSE -1
        m1 == [m EXCEPT !.commentObj[c].Votes = @ + d]
        m2 == [m1 EXCEPT !.userObj[m.commentObj[c].Author].Karma = @ + d]
        m3 == [m2 EXCEPT !.e.TotalVotes = @ + 1]
    IN  IF up THEN [m3 EXCEPT !.e.TotalUpvotes = @ + 1]
        ELSE [m3 EXCEPT !.e.TotalDownvotes = @ + 1]

HarnessVoteComment ==
    /\ Budget
    /\ \E c \in CommentPtrs, up \in BOOLEAN :
          (* the harness votes on the comment CommentPost has just returned *)
          /\ \/ cur.op = "CommentPost" /\ c = cur.ret
             \/ cur.op = "VoteComment" /\ c = cur.a.comment
          /\ Commit(VoteComment(Mem, c, up))
          /\ cur' = [IdleFrame EXCEPT !.op = "VoteComment", !.pc = PcDone,
                                      !.a.comment = c]
    /\ UNCHANGED <<thr, snap, boot>>

(* simulateUsers, lines 31-36: once the user is registered and has joined  *)
(* its communities, the harness writes user.Connected, and counts the user *)
(* in DisconnectedUsers when it writes false.                              *)
SetConnected(m, u, on) ==
    IF on THEN [m EXCEPT !.userObj[u].Connected = TRUE]
    ELSE [m EXCEPT !.userObj[u].Connected = FALSE,
                   !.e.DisconnectedUsers = @ + 1]

HarnessSetConnected ==
    /\ \E u \in UserPtrs, on \in BOOLEAN :
          (* line 31 is reached after RegisterUser and the joins of the    *)
          (* user, who is still connected as registered                    *)
          /\ \/ cur.op = "RegisterUser" /\ u = cur.ret
             \/ cur.op = "JoinSubReddit" /\ u = cur.a.user
          /\ userObj[u].Connected
          /\ on \/ Budget
          /\ Commit(SetConnected(Mem, u, on))
          /\ cur' = [IdleFrame EXCEPT !.op = "SetConnected", !.pc = PcDone,
                                      !.a.user = u]
    /\ UNCHANGED <<thr, snap, boot>>

(* printComments, line 101: the vote loop makes 1 to rand.Intn(5)+1 rounds *)
MaxVoteRounds == 5

(* The net change of Votes after n rounds of one vote up or down each *)
VoteDeltas == UNION { {2 * k - n : k \in 0..n} : n \in 1..MaxVoteRounds }

(* printComments(comments, level): every comment of the list whose Votes   *)
(* is 0 is voted on, its Votes and its author's Karma moving together and  *)
(* no Engine counter; then its replies are printed the same way.  The      *)
(* outcomes are the pairs of the users and the comment list afterwards.    *)
RECURSIVE PrintComments(_, _)
PrintComments(users, cs) ==
    IF cs = <<>> THEN {[users |-> users, cs |-> <<>>]}
    ELSE LET c == Head(cs)
         IN  UNION {
               LET c1 == [c EXCEPT !.Votes = @ + d]
                   u1 == [users EXCEPT ![c.Author].Karma = @ + d]
               IN  UNION { { [users |-> t.users,
                              cs |-> <<[c1 EXCEPT !.Replies = r.cs]>> \o t.cs]
                             : t \in PrintComments(r.users, Tail(cs)) }
                           : r \in PrintComments(u1, c1.Replies) }
               : d \in IF c.Votes = 0 THEN VoteDeltas ELSE {0} }

(* main, lines 214-221: the posts of the feed GetUserFeed returned are     *)
(* printed in order; each step is the printComments call for the next post *)
(* of the feed that has comments.                                          *)
HarnessPrintComments ==
    /\ cur.op \in {"GetUserFeed", "printComments"}
    /\ \E i \in DOMAIN cur.ret :
          /\ Len(postObj[cur.ret[i]].Comments) > 0
          /\ \A j \in 1..(i - 1) : Len(postObj[cur.ret[j]].Comments) = 0
          /\ \E s \in PrintComments(userObj, postObj[cur.ret[i]].Comments) :
                /\ userObj' = s.users
                /\ postObj' = [postObj EXCEPT ![cur.ret[i]].Comments = s.cs]
          /\ cur' = [cur EXCEPT !.op = "printComments", !.a.post = cur.ret[i],
                                !.ret = SubSeq(cur.ret, i + 1, Len(cur.ret))]
    /\ UNCHANGED <<e, subObj, commentObj, thr, snap, boot>>

HarnessOps == {"VoteComment", "SetConnected", "printComments"}

(* The Engine calls simulateUsers and main make, and their direct writes *)
NextHarness ==
    \/ CallCreateSubReddit
    \/ CallRegisterUser
    \/ CallJoinSubReddit
    \/ HarnessSetConnected
    \/ CallCreatePost
    \/ CallUpvotePost
    \/ CallDownvotePost
    \/ CallCommentPost
    \/ HarnessVoteComment
    \/ CallAddReplyToComment
    \/ CallCreateRepost
    \/ CallSendDirectMessage
    \/ CallGetUserFeed
    \/ HarnessPrintComments

SpecHarness == Init /\ [][NextHarness]_vars

----------------------------------------------------------------------------
(* The concurrent program: the main goroutine runs a setup sequence, then  *)
(* every goroutine of Threads makes one Engine call; the calls interleave  *)
(* statement by statement.                                                 *)

LockPcs == {85, 94, 105, 118, 131, 157, 184, 197, 210, 221, 232, 243, 259}

Setups ==
    << (* 1: one community *)
       << [op |-> "CreateSubReddit", a |-> [NoArgs EXCEPT !.name = "r1"]] >>,
       (* 2: one community, two users, no content *)
       << [op |-> "CreateSubReddit", a |-> [NoArgs EXCEPT !.name = "r1"]],
          [op |-> "RegisterUser", a |-> [NoArgs EXCEPT !.name = "alice"]],
          [op |-> "RegisterUser", a |-> [NoArgs EXCEPT !.name = "bob"]] >>,
       (* 3: a member with a post, a comment on it and a message *)
       << [op |-> "CreateSubReddit", a |-> [NoArgs EXCEPT !.name = "r1"]],
          [op |-> "RegisterUser", a |-> [NoArgs EXCEPT !.name = "alice"]],
          [op |-> "RegisterUser", a |-> [NoArgs EXCEPT !.name = "bob"]],
          [op |-> "JoinSubReddit", a |-> [NoArgs EXCEPT !.user = 1, !.name = "r1"]],
          [op |-> "CreatePost",
           a |-> [NoArgs EXCEPT !.user = 1, !.name = "r1", !.content = "hi"]],
          [op |-> "CommentPost",
           a |-> [NoArgs EXCEPT !.user = 2, !.post = 1, !.content = "hi"]],
          [op |-> "SendDirectMessage",
           a |-> [NoArgs EXCEPT !.user = 2, !.to = 1, !.content = "hi"]] >>,
       (* 4: two communities that both hold posts; alice is a member of    *)
       (* both, bob of the first only                                      *)
       << [op |-> "CreateSubReddit", a |-> [NoArgs EXCEPT !.name = "r1"]],
          [op |-> "CreateSubReddit", a |-> [NoArgs EXCEPT !.name = "r2"]],
          [op |-> "RegisterUser", a |-> [NoArgs EXCEPT !.name = "alice"]],
          [op |-> "RegisterUser", a |-> [NoArgs EXCEPT !.name = "bob"]],
          [op |-> "JoinSubReddit", a |-> [NoArgs EXCEPT !.user = 1, !.name = "r1"]],
          [op |-> "JoinSubReddit", a |-> [NoArgs EXCEPT !.user = 1, !.name = "r2"]],
          [op |-> "JoinSubReddit", a |-> [NoArgs EXCEPT !.user = 2, !.name = "r1"]],
          [op |-> "CreatePost",
           a |-> [NoArgs EXCEPT !.user = 1, !.name = "r1", !.content = "hi"]],
          [op |-> "CreatePost",
           a |-> [NoArgs EXCEPT !.user = 2, !.name = "r2", !.content = "hi"]],
          [op |-> "CreatePost",
           a |-> [NoArgs EXCEPT !.user = 2, !.name = "r1", !.content = "hi"]] >> >>

(* The memory after the calls of the sequence cs, made one after another *)
RECURSIVE RunCalls(_, _)
RunCalls(m, cs) ==
    IF cs = <<>> THEN m
    ELSE RunCalls((CHOOSE s \in Run(m, Frame(Head(cs).op, Head(cs).a)) : TRUE).m,
                  Tail(cs))

InitConc ==
    /\ boot \in DOMAIN Setups
    /\ LET m == RunCalls(NewMem, Setups[boot])
       IN  /\ e = m.e
           /\ userObj = m.userObj
           /\ subObj = m.subObj
           /\ postObj = m.postObj
           /\ commentObj = m.commentObj
    /\ cur = IdleFrame
    /\ thr = [t \in Threads |-> IdleFrame]
    /\ snap = [t \in Threads |-> NoSnap]

Invoke(t, op, a) ==
    /\ thr[t].pc = PcIdle
    /\ thr' = [thr EXCEPT ![t] = Frame(op, a)]
    /\ UNCHANGED <<e, userObj, subObj, postObj, commentObj, cur, snap, boot>>

Registering == {t \in Threads : thr[t].op = "RegisterUser" /\ thr[t].pc # PcDone}

GoRegisterUser(t) ==
    /\ Len(userObj) + Cardinality(Registering) < Len(Usernames)
    /\ Invoke(t, "RegisterUser",
              [NoArgs EXCEPT !.name =
                  Usernames[Len(userObj) + Cardinality(Registering) + 1]])

GoCreateSubReddit(t) ==
    \E n \in Names : Invoke(t, "CreateSubReddit", [NoArgs EXCEPT !.name = n])

GoJoinSubReddit(t) ==
    \E u \in UserPtrs, n \in Names :
        Invoke(t, "JoinSubReddit", [NoArgs EXCEPT !.user = u, !.name = n])

GoLeaveSubReddit(t) ==
    \E u \in UserPtrs, n \in Names :
        Invoke(t, "LeaveSubReddit", [NoArgs EXCEPT !.user = u, !.name = n])

GoCreatePost(t) ==
    \E u \in UserPtrs, n \in Names, c \in Contents :
        Invoke(t, "CreatePost", [NoArgs EXCEPT !.user = u, !.name = n, !.content = c])

GoCreateRepost(t) ==
    \E u \in UserPtrs, p \in PostPtrs, n \in Names :
        Invoke(t, "CreateRepost", [NoArgs EXCEPT !.user = u, !.post = p, !.name = n])

GoCommentPost(t) ==
    \E u \in UserPtrs, p \in PostPtrs, c \in Contents :
        Invoke(t, "CommentPost", [NoArgs EXCEPT !.user = u, !.post = p, !.content = c])

GoAddReplyToComment(t) ==
    \E u \in UserPtrs, k \in CommentPtrs, c \in Contents :
        Invoke(t, "AddReplyToComment",
               [NoArgs EXCEPT !.user = u, !.comment = k, !.content = c])

GoUpvotePost(t) ==
    \E p \in PostPtrs : Invoke(t, "UpvotePost", [NoArgs EXCEPT !.post = p])

GoDownvotePost(t) ==
    \E p \in PostPtrs : Invoke(t, "DownvotePost", [NoArgs EXCEPT !.post = p])

GoSendDirectMessage(t) ==
    \E u \in UserPtrs, r \in UserPtrs, c \in Contents :
        Invoke(t, "SendDirectMessage",
               [NoArgs EXCEPT !.user = u, !.to = r, !.content = c])

GoRetrieveMessages(t) ==
    \E u \in UserPtrs : Invoke(t, "RetrieveMessages", [NoArgs EXCEPT !.user = u])

GoReplyToMessage(t) ==
    \E u \in UserPtrs, o \in Range(e.Messages), c \in Contents :
        Invoke(t, "ReplyToMessage",
               [NoArgs EXCEPT !.user = u, !.msg = o, !.content = c])

GoGetUserFeed(t) ==
    \E u \in UserPtrs : Invoke(t, "GetUserFeed", [NoArgs EXCEPT !.user = u])

(* Goroutine t executes its next statement.  snap[t] remembers the memory  *)
(* and frame with which t acquired the mutex, until t releases it.         *)
Proceed(t) ==
    /\ thr[t].pc \notin {PcIdle, PcDone}
    /\ \E s \in Step(Mem, thr[t]) :
          /\ Commit(s.m)
          /\ thr' = [thr EXCEPT ![t] = s.f]
          /\ snap' = [snap EXCEPT ![t] =
                        IF thr[t].pc \in LockPcs THEN [m |-> Mem, f |-> thr[t]]
                        ELSE IF thr[t].holds /\ ~s.f.holds THEN NoSnap
                        ELSE @]
    /\ UNCHANGED <<cur, boot>>

NextConc ==
    \E t \in Threads :
        \/ GoRegisterUser(t)
        \/ GoCreateSubReddit(t)
        \/ GoJoinSubReddit(t)
        \/ GoLeaveSubReddit(t)
        \/ GoCreatePost(t)
        \/ GoCreateRepost(t)
        \/ GoCommentPost(t)
        \/ GoAddReplyToComment(t)
        \/ GoUpvotePost(t)
        \/ GoDownvotePost(t)
        \/ GoSendDirectMessage(t)
        \/ GoRetrieveMessages(t)
        \/ GoReplyToMessage(t)
        \/ GoGetUserFeed(t)
        \/ Proceed(t)

SpecConc == InitConc /\ [][NextConc]_vars

(* sync.Mutex hands the lock to a waiting goroutine and the Go scheduler   *)
(* runs every runnable goroutine: each goroutine's next statement is       *)
(* weakly fair.                                                            *)
FairSpecConc == SpecConc /\ \A t \in Threads : WF_vars(Proceed(t))

----------------------------------------------------------------------------
(* Derived quantities *)

(* The users held in e.Users, as pointers *)
Registered == {e.Users[id] : id \in DOMAIN e.Users}

(* The communities held in e.SubReddits, as pointers *)
Communities == {e.SubReddits[n] : n \in DOMAIN e.SubReddits}

RECURSIVE SumActions(_)
SumActions(S) ==
    IF S = {} THEN 0
    ELSE LET u == CHOOSE x \in S : TRUE
         IN  userObj[u].Actions + SumActions(S \ {u})

RECURSIVE SumPostVotes(_)
SumPostVotes(S) ==
    IF S = {} THEN 0
    ELSE LET p == CHOOSE x \in S : TRUE
         IN  postObj[p].Votes + SumPostVotes(S \ {p})

RECURSIVE SumCommentVotes(_)
SumCommentVotes(S) ==
    IF S = {} THEN 0
    ELSE LET c == CHOOSE x \in S : TRUE
         IN  commentObj[c].Votes + SumCommentVotes(S \ {c})

RECURSIVE CountListed(_)
CountListed(S) ==
    IF S = {} THEN 0
    ELSE LET c == CHOOSE x \in S : TRUE
         IN  Len(subObj[c].Posts) + CountListed(S \ {c})

(* The posts held in some community's post list *)
ListedPosts == UNION {Range(subObj[c].Posts) : c \in Communities}

(* Number of comments in a comment list, replies included *)
RECURSIVE CountComments(_)
CountComments(cs) ==
    IF cs = <<>> THEN 0
    ELSE 1 + CountComments(Head(cs).Replies) + CountComments(Tail(cs))

RECURSIVE CountReachable(_)
CountReachable(S) ==
    IF S = {} THEN 0
    ELSE LET p == CHOOSE x \in S : TRUE
         IN  CountComments(postObj[p].Comments) + CountReachable(S \ {p})

VoteOps == {"UpvotePost", "DownvotePost"}
CommunityOps == {"JoinSubReddit", "LeaveSubReddit", "CreatePost", "CreateRepost"}

----------------------------------------------------------------------------
(* Claims *)

(* C1: in every state reached by whole Engine calls, TotalVotes equals     *)
(* TotalUpvotes + TotalDownvotes, and a call that changes any of the three *)
(* counters is an UpvotePost or a DownvotePost.                            *)
C1_VoteTotals ==
    /\ [](e.TotalVotes = e.TotalUpvotes + e.TotalDownvotes)
    /\ [][ (<<e.TotalVotes, e.TotalUpvotes, e.TotalDownvotes>>' #
            <<e.TotalVotes, e.TotalUpvotes, e.TotalDownvotes>>)
           => cur'.op \in VoteOps ]_vars

C1_Witness ==
    /\ cur.op = "DownvotePost"
    /\ e.TotalUpvotes >= 1
    /\ e.TotalDownvotes >= 1

(* C2 as stated: TotalActions equals the sum of Actions over all           *)
(* registered users in every reachable state.                              *)
C2_ActionsSum == e.TotalActions = SumActions(Registered)

(* C2 amended: TotalActions equals the sum of the users' Actions as long   *)
(* as no vote has been cast; every call other than a vote changes          *)
(* TotalActions and exactly one user's Actions together by 1 (or neither), *)
(* and a vote increments TotalActions alone.                               *)
C2_ActionsSumUntilVote ==
    /\ [](e.TotalVotes = 0 => e.TotalActions = SumActions(Registered))
    /\ [][ LET d == e'.TotalActions - e.TotalActions
               changed == {u \in UserPtrs : userObj'[u].Actions # userObj[u].Actions}
           IN  IF cur'.op \in VoteOps
               THEN d = 1 /\ changed = {}
               ELSE /\ d \in {0, 1}
                    /\ Cardinality(changed) = d
                    /\ \A u \in changed :
                          userObj'[u].Actions = userObj[u].Actions + 1 ]_vars

C2_Witness ==
    /\ cur.op = "UpvotePost"
    /\ e.TotalActions = 3
    /\ SumActions(Registered) = 2

(* Votes held by the comments of the list cs authored by u, replies included *)
RECURSIVE StoredVotes(_, _)
StoredVotes(cs, u) ==
    IF cs = <<>> THEN 0
    ELSE (IF Head(cs).Author = u THEN Head(cs).Votes ELSE 0)
         + StoredVotes(Head(cs).Replies, u) + StoredVotes(Tail(cs), u)

RECURSIVE SumStoredVotes(_, _)
SumStoredVotes(S, u) ==
    IF S = {} THEN 0
    ELSE LET p == CHOOSE x \in S : TRUE
         IN  StoredVotes(postObj[p].Comments, u) + SumStoredVotes(S \ {p}, u)

(* Net votes on the listed posts authored by u *)
PostVotesOf(u) == SumPostVotes({p \in ListedPosts : postObj[p].Author = u})

(* C3: every registered user's Karma equals the net votes applied to the   *)
(* posts and comments the user authored: the sum of Votes over the user's  *)
(* listed posts, over the comment handles the harness voted on, and over   *)
(* the comments stored in the posts, which printComments votes on; and     *)
(* every Engine call changes each user's Karma by exactly the change of    *)
(* the net votes of the user's posts (a new user starts with Karma 0), so  *)
(* under Engine calls alone the Karma is the sum of Votes over the user's  *)
(* posts.                                                                  *)
C3_Karma ==
    /\ [](\A u \in Registered :
             userObj[u].Karma =
                 PostVotesOf(u)
                 + SumCommentVotes({c \in CommentPtrs : commentObj[c].Author = u})
                 + SumStoredVotes(ListedPosts, u))
    /\ [][ cur'.op \notin HarnessOps
           => /\ \A u \in UserPtrs :
                    userObj'[u].Karma - userObj[u].Karma
                        = PostVotesOf(u)' - PostVotesOf(u)
              /\ \A u \in DOMAIN userObj' \ UserPtrs : userObj'[u].Karma = 0
        ]_vars

C3_Witness ==
    /\ cur.op = "VoteComment"
    /\ e.TotalDownvotes = 1
    /\ \E u \in Registered :
          /\ userObj[u].Karma = -1
          /\ \E p \in ListedPosts : postObj[p].Author # u
          /\ SumCommentVotes({c \in CommentPtrs : commentObj[c].Author = u}) = -1

(* C4 as stated: every comment ever created is reachable from a post's     *)
(* comment tree, so the comments reachable from the posts number           *)
(* TotalComments.                                                          *)
C4_CommentsReachable == CountReachable(ListedPosts) = e.TotalComments

(* C5: the identifiers of the posts, in the order they were issued, start  *)
(* at 1 and strictly increase; likewise the identifiers of the comments.   *)
C5_Identifiers ==
    /\ \A i \in PostPtrs : i = 1 => postObj[i].ID = 1
    /\ \A i, j \in PostPtrs : i < j => postObj[i].ID < postObj[j].ID
    /\ \A i \in CommentPtrs : i = 1 => commentObj[i].ID = 1
    /\ \A i, j \in CommentPtrs : i < j => commentObj[i].ID < commentObj[j].ID

C5_Witness ==
    /\ cur.op = "CommentPost"
    /\ Len(postObj) = 2
    /\ \E c \in Communities : Len(subObj[c].Posts) = 2
    /\ Len(commentObj) = 1

(* C6: a JoinSubReddit, LeaveSubReddit, CreatePost or CreateRepost call    *)
(* that names a community that does not exist returns the failure value    *)
(* (false, or nil) and leaves the Engine and every object unchanged.       *)
C6_UnknownCommunity ==
    [][ (cur'.op \in CommunityOps /\ cur'.a.name \notin DOMAIN e.SubReddits)
        => /\ Mem' = Mem
           /\ IF cur'.op \in {"JoinSubReddit", "LeaveSubReddit"}
              THEN cur'.ret = FALSE
              ELSE cur'.ret = Nil ]_vars

C6_Witness ==
    /\ cur.op = "CreateRepost"
    /\ cur.a.name \notin DOMAIN e.SubReddits
    /\ cur.ret = Nil
    /\ e.TotalPosts = 1
    /\ e.PostID = 2

(* The relations between the Engine's fields that every whole call keeps *)
Consistent ==
    /\ e.PostID - 1 = e.TotalPosts
    /\ e.TotalPosts = CountListed(Communities)
    /\ e.TotalPosts = e.ActionBreakdown["Posts"]
    /\ e.CommentID - 1 = e.TotalComments
    /\ e.TotalComments = e.ActionBreakdown["Comments"]
    /\ e.TotalVotes = e.TotalUpvotes + e.TotalDownvotes
    /\ e.TotalVotes = e.ActionBreakdown["Votes"]
    /\ SumPostVotes(ListedPosts) = e.TotalUpvotes - e.TotalDownvotes
    /\ e.TotalMessages = Len(e.Messages)
    /\ e.TotalMessages = e.ActionBreakdown["Messages"]
    /\ e.TotalActions = SumActions(Registered) + e.TotalVotes

(* Goroutine t releases the mutex in this step *)
Releases(t) == thr[t].holds /\ ~thr'[t].holds

(* Goroutine t's call completes in this step *)
Completes(t) == thr[t].pc # PcDone /\ thr'[t].pc = PcDone

CreatePostDone(t) ==
    /\ thr[t].op = "CreatePost"
    /\ thr[t].pc = PcDone
    /\ thr[t].a.name \in DOMAIN e.SubReddits

(* C7: when every goroutine has made one CreatePost call on an existing    *)
(* community and all have returned, the calls returned pairwise distinct   *)
(* posts with pairwise distinct identifiers, each held in a post list, and *)
(* TotalPosts and the number of posts held grew by the number of           *)
(* goroutines (from 0 to N when the setup created no post).                *)
C7_ConcurrentCreatePost ==
    (boot \in DOMAIN Setups /\ \A t \in Threads : CreatePostDone(t))
    => LET n == Cardinality(Threads)
           n0 == RunCalls(NewMem, Setups[boot]).e.TotalPosts
       IN  /\ \A t \in Threads : thr[t].ret \in ListedPosts
           /\ \A t1, t2 \in Threads :
                 t1 # t2 => /\ thr[t1].ret # thr[t2].ret
                            /\ postObj[thr[t1].ret].ID # postObj[thr[t2].ret].ID
           /\ Cardinality({postObj[p].ID : p \in ListedPosts}) = n0 + n
           /\ CountListed(Communities) = n0 + n
           /\ e.TotalPosts = n0 + n
           /\ e.PostID = n0 + n + 1

C7_Witness ==
    /\ boot = 2
    /\ \A t \in Threads : CreatePostDone(t)
    /\ e.TotalPosts = Cardinality(Threads)

(* C8: at most one goroutine is inside a critical section; whenever the    *)
(* mutex is free (the only moment another call can start to read) the      *)
(* Engine's fields are mutually consistent; and when a call releases the   *)
(* mutex, the memory it leaves and the result it goes on to return are     *)
(* those that running the call alone, from the memory it found when it     *)
(* took the mutex, produces.                                               *)
C8_Atomic ==
    /\ [](Cardinality({t \in Threads : thr[t].holds}) <= 1)
    /\ [](e.Mutex <=> \E t \in Threads : thr[t].holds)
    /\ [](~e.Mutex => Consistent)
    /\ [][ \A t \in Threads :
             Releases(t) =>
                Run(Mem', thr'[t]) \subseteq Run(snap[t].m, snap[t].f) ]_vars

C8_Witness ==
    \E t1, t2 \in Threads :
        /\ thr[t1].op = "UpvotePost"
        /\ thr[t1].pc = 214
        /\ thr[t1].holds
        /\ thr[t2].op = "GetUserFeed"
        /\ thr[t2].pc = 259
        /\ ~Consistent

(* C9: every invoked call eventually completes; when no call is in         *)
(* progress the mutex is free; a goroutine that has returned holds no      *)
(* mutex; and no goroutine reaches a Lock statement while holding the      *)
(* mutex (ReplyToMessage enters SendDirectMessage without holding it).     *)
C9_Completes ==
    /\ \A t \in Threads : (thr[t].pc # PcIdle) ~> (thr[t].pc = PcDone)
    /\ []((\A t \in Threads : thr[t].pc \in {PcIdle, PcDone}) => ~e.Mutex)
    /\ [](\A t \in Threads : thr[t].pc = PcDone => ~thr[t].holds)
    /\ [](\A t \in Threads : ~(thr[t].holds /\ thr[t].pc \in LockPcs))

C9_Witness ==
    \E t1, t2 \in Threads :
        /\ thr[t1].op = "ReplyToMessage"
        /\ thr[t1].pc = PcDone
        /\ thr[t2].op = "CreatePost"
        /\ thr[t2].pc = PcDone
        /\ thr[t2].ret = Nil
        /\ e.TotalMessages = 2
        /\ ~e.Mutex

(* C10: a RegisterUser call returns a user; the call that completes as the *)
(* k-th registration returns a user with identifier k, karma 0, actions 0  *)
(* and connected, stored under key k; and whenever the mutex is free the   *)
(* i-th registered user is stored under key i with identifier i, so no     *)
(* entry has been overwritten.                                             *)
C10_RegisterUser ==
    /\ [](~e.Mutex =>
            /\ DOMAIN e.Users = UserPtrs
            /\ \A i \in UserPtrs : e.Users[i] = i /\ userObj[i].ID = i)
    /\ [][ \A t \in Threads :
             (thr[t].op = "RegisterUser" /\ Completes(t)) =>
                LET r == thr'[t].ret
                    k == Cardinality(DOMAIN e'.Users)
                IN  /\ r # Nil
                    /\ userObj'[r].ID = k
                    /\ userObj'[r].Karma = 0
                    /\ userObj'[r].Actions = 0
                    /\ userObj'[r].Connected
                    /\ e'.Users[k] = r ]_vars

C10_Witness ==
    /\ \A t \in Threads : thr[t].op = "RegisterUser" /\ thr[t].pc = PcDone
    /\ thr[1].ret = 2
    /\ thr[2].ret = 1
    /\ userObj[2].ID = 2

(* C11: a CreateSubReddit call whose name is already a key of e.SubReddits *)
(* returns nil and leaves the Engine and every object unchanged: the set   *)
(* of communities keeps its size, and the existing community keeps its     *)
(* post list and its membership.                                           *)
C11_DuplicateCommunity ==
    [][ (cur'.op = "CreateSubReddit" /\ cur'.a.name \in DOMAIN e.SubReddits)
        => LET c == e.SubReddits[cur'.a.name]
           IN  /\ cur'.ret = Nil
               /\ Cardinality(DOMAIN e'.SubReddits) = Cardinality(DOMAIN e.SubReddits)
               /\ e'.SubReddits[cur'.a.name] = c
               /\ subObj'[c].Posts = subObj[c].Posts
               /\ subObj'[c].Users = subObj[c].Users
               /\ Mem' = Mem ]_vars

C11_Witness ==
    /\ cur.op = "CreateSubReddit"
    /\ cur.ret = Nil
    /\ cur.a.name \in DOMAIN e.SubReddits
    /\ Len(subObj[e.SubReddits[cur.a.name]].Posts) = 1
    /\ Cardinality(DOMAIN subObj[e.SubReddits[cur.a.name]].Users) = 1
    /\ Cardinality(DOMAIN e.SubReddits) = 2

(* The communities whose membership map holds user u's identifier *)
MemberOf(u) == {c \in Communities : userObj[u].ID \in DOMAIN subObj[c].Users}

(* The post lists of the communities of S, concatenated in every order of S *)
RECURSIVE Concats(_)
Concats(S) ==
    IF S = {} THEN {<<>>}
    ELSE UNION { {subObj[c].Posts \o r : r \in Concats(S \ {c})} : c \in S }

(* C12: a GetUserFeed(u) call, made while another goroutine makes any     *)
(* call, leaves the memory as it found it when it took the mutex and       *)
(* returns the post lists of the communities u is a member of at that      *)
(* moment, each list whole and in its own order, one list after another in *)
(* some order of the communities: every post of such a community exactly   *)
(* once, and no post of a community u is not a member of or has left.      *)
C12_Feed ==
    [][ \A t \in Threads :
          (thr[t].op = "GetUserFeed" /\ Releases(t))
          => LET feed == thr'[t].ret
                 mine == MemberOf(thr[t].a.user)
             IN  /\ Mem' = snap[t].m
                 /\ feed \in Concats(mine)
                 /\ Range(feed) = UNION {Range(subObj[c].Posts) : c \in mine}
                 /\ \A i, j \in DOMAIN feed : i # j => feed[i] # feed[j]
                 /\ \A c \in Communities \ mine :
                       Range(feed) \cap Range(subObj[c].Posts) = {} ]_vars

(* Both goroutines have asked for the feed of the same member of two       *)
(* communities that hold posts, and the map was ranged over in the two     *)
(* orders.                                                                 *)
C12_Witness ==
    /\ \A t \in Threads : thr[t].op = "GetUserFeed" /\ thr[t].pc = PcDone
    /\ thr[1].a.user = thr[2].a.user
    /\ Cardinality(MemberOf(thr[1].a.user)) = 2
    /\ \A c \in MemberOf(thr[1].a.user) : Len(subObj[c].Posts) >= 1
    /\ \E c \in MemberOf(thr[1].a.user) : Len(subObj[c].Posts) = 2
    /\ Len(thr[1].ret) = 3
    /\ thr[1].ret # thr[2].ret

(* The messages of the log addressed to user u, in log order *)
Inbox(u) == SelectSeq(e.Messages, LAMBDA x : x.To = u)

(* C13: RetrieveMessages(u) changes nothing and returns the messages of    *)
(* the log whose recipient is u, in the order of the log, and no message   *)
(* addressed to another user.                                              *)
C13_Inbox ==
    [][ cur'.op = "RetrieveMessages"
        => /\ Mem' = Mem
           /\ cur'.ret = Inbox(cur'.a.user)
           /\ \A i \in DOMAIN cur'.ret : cur'.ret[i].To = cur'.a.user ]_vars

C13_Witness ==
    /\ cur.op = "RetrieveMessages"
    /\ Len(e.Messages) = 3
    /\ e.Messages[2].To # cur.a.user
    /\ cur.ret = <<e.Messages[1], e.Messages[3]>>
    /\ e.Messages[1] # e.Messages[3]

MembershipOps == {"JoinSubReddit", "LeaveSubReddit"}

(* C14: a JoinSubReddit or LeaveSubReddit call on an existing community    *)
(* returns true and increments the caller's Actions and TotalActions by 1  *)
(* and nothing else outside that community's membership; afterwards the    *)
(* caller is a member (join) or not a member (leave), every other user's   *)
(* membership of every community is as before, and the membership is       *)
(* unchanged when the caller already was a member (join) or was not one    *)
(* (leave).                                                                *)
C14_Membership ==
    [][ (cur'.op \in MembershipOps /\ cur'.a.name \in DOMAIN e.SubReddits)
        => LET u == cur'.a.user
               id == userObj[u].ID
               c == e.SubReddits[cur'.a.name]
               was == subObj[c].Users
               now == subObj'[c].Users
           IN  /\ cur'.ret = TRUE
               /\ userObj' = [userObj EXCEPT ![u].Actions = @ + 1]
               /\ e' = [e EXCEPT !.TotalActions = @ + 1]
               /\ postObj' = postObj
               /\ commentObj' = commentObj
               /\ subObj' = [subObj EXCEPT ![c].Users = now]
               /\ DOMAIN now \ {id} = DOMAIN was \ {id}
               /\ \A k \in DOMAIN was \ {id} : now[k] = was[k]
               /\ IF cur'.op = "JoinSubReddit"
                  THEN /\ id \in DOMAIN now
                       /\ now[id] = u
                       /\ id \in DOMAIN was => now = was
                  ELSE /\ id \notin DOMAIN now
                       /\ id \notin DOMAIN was => now = was ]_vars

C14_Witness ==
    /\ cur.op = "LeaveSubReddit"
    /\ cur.ret = TRUE
    /\ userObj[cur.a.user].Actions = 1
    /\ e.TotalActions = 3
    /\ DOMAIN e.SubReddits = {cur.a.name}
    /\ \E v \in Registered :
          /\ v # cur.a.user
          /\ userObj[v].Actions = 2
          /\ DOMAIN subObj[e.SubReddits[cur.a.name]].Users = {userObj[v].ID}

(* C15: an UpvotePost(p) call raises p.Votes and p.Author.Karma by 1 and a *)
(* DownvotePost(p) call lowers both by 1, whatever their values; the call  *)
(* changes no other field of any post or user (no Actions, no other post's *)
(* Votes, no other user's Karma), no community (post lists, memberships),  *)
(* no comment, and neither the message log, the identifier counters nor    *)
(* the user and community maps.                                            *)
C15_VoteFrame ==
    [][ cur'.op \in VoteOps
        => LET p == cur'.a.post
               d == IF cur'.op = "UpvotePost" THEN 1 ELSE -1
           IN  /\ postObj' = [postObj EXCEPT ![p].Votes = @ + d]
               /\ userObj' = [userObj EXCEPT ![postObj[p].Author].Karma = @ + d]
               /\ subObj' = subObj
               /\ commentObj' = commentObj
               /\ e'.Messages = e.Messages
               /\ e'.PostID = e.PostID
               /\ e'.CommentID = e.CommentID
               /\ e'.Users = e.Users
               /\ e'.SubReddits = e.SubReddits ]_vars

C15_Witness ==
    /\ cur.op = "DownvotePost"
    /\ postObj[cur.a.post].Votes = -1
    /\ userObj[postObj[cur.a.post].Author].Karma = -1
    /\ userObj[postObj[cur.a.post].Author].Actions = 1
    /\ \E q \in ListedPosts :
          /\ postObj[q].Author # postObj[cur.a.post].Author
          /\ postObj[q].Votes = 0
          /\ userObj[postObj[q].Author].Karma = 0

(* C16: a CreateRepost(u, p, name) call on an existing community returns a *)
(* new post whose identifier is the unused e.PostID (different from p's    *)
(* and from every other post's), whose author is u, whose content is p's,  *)
(* with 0 votes and no comments, appended to that community's post list;   *)
(* every post that existed, p included, is unchanged and stays in its      *)
(* list, and the karma of p's author is unchanged.                         *)
C16_Repost ==
    [][ (cur'.op = "CreateRepost" /\ cur'.a.name \in DOMAIN e.SubReddits)
        => LET u == cur'.a.user
               p == cur'.a.post
               c == e.SubReddits[cur'.a.name]
               r == cur'.ret
           IN  /\ r \in DOMAIN postObj' \ PostPtrs
               /\ postObj'[r] = [ID |-> e.PostID, Author |-> u,
                                 Content |-> postObj[p].Content,
                                 Comments |-> <<>>, Votes |-> 0]
               /\ \A q \in PostPtrs : /\ postObj'[q] = postObj[q]
                                       /\ postObj'[r].ID # postObj[q].ID
               /\ subObj' = [subObj EXCEPT ![c].Posts = Append(@, r)]
               /\ userObj'[postObj[p].Author].Karma = userObj[postObj[p].Author].Karma
        ]_vars

C16_Witness ==
    /\ cur.op = "CreateRepost"
    /\ cur.ret # Nil
    /\ postObj[cur.a.post].Votes = 1
    /\ postObj[cur.ret].Votes = 0
    /\ postObj[cur.a.post].Author # cur.a.user
    /\ userObj[postObj[cur.a.post].Author].Karma = 1
    /\ \E c \in Communities : subObj[c].Posts = <<cur.a.post>>
    /\ subObj[e.SubReddits[cur.a.name]].Posts = <<cur.ret>>

(* The memories a SendDirectMessage(from, to, content) call made now leaves *)
SendOutcomes(from, to, content) ==
    {s.m : s \in Run(Mem, Frame("SendDirectMessage",
                                [NoArgs EXCEPT !.user = from, !.to = to,
                                               !.content = content]))}

(* C17: a ReplyToMessage(u, original, content) call leaves the memory that *)
(* SendDirectMessage(u, original.From, content) leaves from the same       *)
(* memory: the message from u to original.From is appended to the log,     *)
(* TotalMessages, ActionBreakdown["Messages"], u.Actions and TotalActions  *)
(* are each incremented by 1, and nothing else changes.                    *)
C17_ReplyIsSend ==
    [][ cur'.op = "ReplyToMessage"
        => LET u == cur'.a.user
               o == cur'.a.msg
               c == cur'.a.content
           IN  /\ SendOutcomes(u, o.From, c) = {Mem'}
               /\ e' = [e EXCEPT !.Messages = Append(@, [From |-> u, To |-> o.From,
                                                         Content |-> c]),
                                 !.TotalMessages = @ + 1,
                                 !.ActionBreakdown["Messages"] = @ + 1,
                                 !.TotalActions = @ + 1]
               /\ userObj' = [userObj EXCEPT ![u].Actions = @ + 1]
               /\ subObj' = subObj
               /\ postObj' = postObj
               /\ commentObj' = commentObj ]_vars

C17_Witness ==
    /\ cur.op = "ReplyToMessage"
    /\ Len(e.Messages) = 2
    /\ cur.a.msg = e.Messages[1]
    /\ cur.a.msg.From # cur.a.user
    /\ cur.a.msg.To = cur.a.user
    /\ e.Messages[2].From = cur.a.user
    /\ e.Messages[2].To = cur.a.msg.From
    /\ e.TotalMessages = 2
    /\ userObj[cur.a.user].Actions = 1

(* The places (community, index) of the post lists that hold post p *)
Places(p) ==
    UNION { {<<c, i>> : i \in {j \in DOMAIN subObj[c].Posts : subObj[c].Posts[j] = p}}
            : c \in Communities }

(* C18: in every state reached by whole Engine calls PostID - 1 equals     *)
(* TotalPosts and the number of posts held in the communities' post lists, *)
(* CommentID - 1 equals TotalComments, the identifiers issued are 1 up to  *)
(* those totals without a gap, and every post is held at exactly one place *)
(* of one community's list; no call removes a community, or removes or     *)
(* moves an element of a post list (lists only grow at the end).           *)
C18_GapFree ==
    /\ [](/\ e.PostID - 1 = e.TotalPosts
          /\ e.TotalPosts = CountListed(Communities)
          /\ e.CommentID - 1 = e.TotalComments
          /\ {postObj[p].ID : p \in PostPtrs} = 1..e.TotalPosts
          /\ {commentObj[c].ID : c \in CommentPtrs} = 1..e.TotalComments
          /\ \A p \in PostPtrs : Cardinality(Places(p)) = 1)
    /\ [][ \A n \in DOMAIN e.SubReddits :
             LET c == e.SubReddits[n]
                 k == Len(subObj[c].Posts)
             IN  /\ n \in DOMAIN e'.SubReddits
                 /\ e'.SubReddits[n] = c
                 /\ Len(subObj'[c].Posts) >= k
                 /\ SubSeq(subObj'[c].Posts, 1, k) = subObj[c].Posts ]_vars

C18_Witness ==
    /\ cur.op = "CommentPost"
    /\ e.PostID = 3
    /\ e.CommentID = 2
    /\ Cardinality(Communities) = 2
    /\ \A c \in Communities : Len(subObj[c].Posts) = 1
    /\ \E p \in PostPtrs : postObj[p].ID = 2 /\ postObj[p].Author # postObj[1].Author

Kinds == {"Posts", "Comments", "Votes", "Messages"}

(* The aggregate counter that goes with each kind of the breakdown *)
Total(E, k) ==
    CASE k = "Posts" -> E.TotalPosts
      [] k = "Comments" -> E.TotalComments
      [] k = "Votes" -> E.TotalVotes
      [] k = "Messages" -> E.TotalMessages

(* C19: in every state reached by whole Engine calls the breakdown has the *)
(* four kinds Posts, Comments, Votes and Messages, each entry equals its    *)
(* aggregate counter (TotalPosts, TotalComments, TotalVotes,               *)
(* TotalMessages), and TotalMessages is the length of the message log; no  *)
(* call lowers an entry, an aggregate counter or the length of the log.    *)
C19_Breakdown ==
    /\ [](/\ DOMAIN e.ActionBreakdown = Kinds
          /\ \A k \in Kinds : e.ActionBreakdown[k] = Total(e, k)
          /\ e.TotalMessages = Len(e.Messages))
    /\ [][ /\ \A k \in Kinds : /\ e'.ActionBreakdown[k] >= e.ActionBreakdown[k]
                                /\ Total(e', k) >= Total(e, k)
           /\ Len(e'.Messages) >= Len(e.Messages) ]_vars

C19_Witness ==
    /\ cur.op = "SendDirectMessage"
    /\ e.ActionBreakdown["Posts"] = 1
    /\ e.ActionBreakdown["Votes"] = 1
    /\ e.ActionBreakdown["Messages"] = 1
    /\ e.TotalVotes = 1
    /\ Len(e.Messages) = 1

SetupOps == {"RegisterUser", "CreateSubReddit"}

(* C20: in every state reached by whole Engine calls TotalActions equals   *)
(* the sum of Actions over the registered users plus TotalVotes; a vote    *)
(* adds 1 to TotalActions and to TotalVotes and to no user's Actions; and  *)
(* a RegisterUser or CreateSubReddit call changes neither TotalActions,    *)
(* TotalVotes nor any user's Actions (a new user starts with 0 actions).   *)
C20_ActionsAndVotes ==
    /\ [](e.TotalActions = SumActions(Registered) + e.TotalVotes)
    /\ [][ /\ cur'.op \in VoteOps
              => /\ e'.TotalActions = e.TotalActions + 1
                 /\ e'.TotalVotes = e.TotalVotes + 1
                 /\ \A u \in UserPtrs : userObj'[u].Actions = userObj[u].Actions
           /\ cur'.op \in SetupOps
              => /\ e'.TotalActions = e.TotalActions
                 /\ e'.TotalVotes = e.TotalVotes
                 /\ \A u \in UserPtrs : userObj'[u].Actions = userObj[u].Actions
                 /\ \A u \in DOMAIN userObj' \ UserPtrs : userObj'[u].Actions = 0
        ]_vars

C20_Witness ==
    /\ cur.op = "RegisterUser"
    /\ e.TotalActions = 3
    /\ e.TotalVotes = 1
    /\ SumActions(Registered) = 2
    /\ userObj[cur.ret].Actions = 0

====
